---- MODULE Spec2Model ----
(***************************************************************************)
(* rustsec-guardian: the package scanner (src/scanner/mod.rs) and the      *)
(* analysis orchestrator (src/analyzer/mod.rs).                            *)
(*                                                                         *)
(* Text is a sequence of tokens, a path is the package's directory, src    *)
(* and the positions of the entries below it, a HashMap is a function      *)
(* whose DOMAIN is its key set, Option is the empty or the one-element     *)
(* sequence, and a Result is a record with an ok flag.                     *)
(***************************************************************************)
EXTENDS Integers, Sequences, FiniteSets, TLC

\* ------------------------------------------------------------------ bounds
MaxPackages == 2       \* resolved packages in one analysis
MaxEntries == 2        \* entries of the scanned src directory
MaxWildcards == 2      \* leading dependencies whose requirement varies

\* ------------------------------------------------------- program constants
DepCountThreshold == 20

\* ------------------------------------------------------------ small helpers
None == <<>>
Some(x) == <<x>>

Ok(v) == [ok |-> TRUE, issues |-> v]
Err(v) == [ok |-> FALSE, issues |-> v]

Min(a, b) == IF a < b THEN a ELSE b

EmptyMap == [k \in {} |-> <<>>]

\* HashMap::insert: the value under an existing key is replaced.
Insert(m, k, v) == [x \in (DOMAIN m) \cup {k} |-> IF x = k THEN v ELSE m[x]]

\* str::contains for a one-character needle.
contains(s, c) == \E i \in 1..Len(s) : s[i] = c

Digits == <<"0", "1", "2", "3", "4", "5", "6", "7", "8", "9">>
Digit(n) == Digits[n + 1]

\* semver::Version as Display prints it: major.minor.patch
VersionToString(v) == <<Digit(v.major), ".", Digit(v.minor), ".", Digit(v.patch)>>

\* semver::VersionReq as Display prints it: "*", "1.*" or "^1.2"
ReqToString(r) ==
    CASE r.op = "Star" -> <<"*">>
      [] r.op = "Wildcard" -> <<Digit(r.major), ".", "*">>
      [] OTHER -> <<"^", Digit(r.major), ".", Digit(r.minor)>>

\* ------------------------------------------------------------ rule catalog
Whitespace == {"sp", "nl"}
Lit(t) == [set |-> {t}, star |-> FALSE]
Alt(ts) == [set |-> ts, star |-> FALSE]
WsStar == [set |-> Whitespace, star |-> TRUE]

\* SecurityScanner::new: the ordered (regex, description, severity) triples.
patterns ==
    << [pattern |-> <<Lit("unsafe"), WsStar, Lit("{")>>,
        description |-> "Contains unsafe blocks - review for memory safety",
        severity |-> "High"],
       [pattern |-> <<Lit("std::mem::transmute")>>,
        description |-> "Uses memory transmutation - potential type safety issues",
        severity |-> "High"],
       [pattern |-> <<Lit("#![no_std]")>>,
        description |-> "No standard library usage - verify safety implementations",
        severity |-> "Medium"],
       [pattern |-> <<Lit("extern"), WsStar, Lit("C")>>,
        description |-> "FFI usage detected - validate memory safety",
        severity |-> "Medium"],
       [pattern |-> <<Lit("eval"), WsStar, Lit("(")>>,
        description |-> "Code evaluation detected - potential security risk",
        severity |-> "Critical"],
       [pattern |-> <<Lit("std::process::Command")>>,
        description |-> "Process execution capabilities - review for command injection",
        severity |-> "High"],
       [pattern |-> <<Lit("std::fs::"), Alt({"write", "create", "remove"})>>,
        description |-> "File system modification - review for proper permissions",
        severity |-> "Medium"],
       [pattern |-> <<Lit("TcpListener::bind")>>,
        description |-> "Network listener - verify proper security controls",
        severity |-> "Medium"] >>

\* Does the pattern, from element p on, match the text starting at position i?
RECURSIVE MatchFrom(_, _, _, _)
MatchFrom(pat, p, text, i) ==
    IF p > Len(pat) THEN TRUE
    ELSE IF pat[p].star
         THEN \/ MatchFrom(pat, p + 1, text, i)
              \/ /\ i <= Len(text)
                 /\ text[i] \in pat[p].set
                 /\ MatchFrom(pat, p, text, i + 1)
         ELSE /\ i <= Len(text)
              /\ text[i] \in pat[p].set
              /\ MatchFrom(pat, p + 1, text, i + 1)

\* Regex::is_match: an unanchored search over the whole text.
is_match(pat, content) == \E i \in 1..(Len(content) + 1) : MatchFrom(pat, 1, content, i)

\* ---------------------------------------------------------------- findings
\* The format! templates; every description carries the same fields.
Desc(template, name, version, count, path) ==
    [template |-> template, name |-> name, version |-> version,
     count |-> count, path |-> path]

SecurityIssue(severity, description, affected_versions, fix_version) ==
    [severity |-> severity, description |-> description,
     affected_versions |-> affected_versions, fix_version |-> fix_version]

\* The issue scan_file pushes for rule k matching the file at path.
FileIssue(k, path) ==
    SecurityIssue(patterns[k].severity,
                  Desc(patterns[k].description, "", <<>>, 0, Some(path)),
                  <<>>, None)

\* The rule loop leaving at the first rule that matches.
RECURSIVE PushMatches_Stop(_, _, _)
PushMatches_Stop(content, path, k) ==
    IF k > Len(patterns) THEN <<>>
    ELSE IF is_match(patterns[k].pattern, content)
         THEN <<FileIssue(k, path)>>
         ELSE PushMatches_Stop(content, path, k + 1)

\* The rule loop of scan_file, from rule k on.
RECURSIVE PushMatches(_, _, _)
PushMatches(content, path, k) ==
    IF k > Len(patterns) THEN <<>>
    ELSE (IF is_match(patterns[k].pattern, content)
          THEN <<FileIssue(k, path)>> ELSE <<>>)
         \o PushMatches(content, path, k + 1)

scan_file(file, path, issues) ==
    IF ~file.readable
    THEN Err(issues)
    ELSE Ok(issues \o PushMatches(file.text, path, 1))

RECURSIVE scan_directory(_, _, _)
RECURSIVE ScanEntries(_, _, _, _)
\* The for loop of scan_directory over read_dir's entries, from entry i on.
ScanEntries(entries, path, i, issues) ==
    IF i > Len(entries) THEN Ok(issues)
    ELSE LET e == entries[i]
             p == Append(path, i)
             r == CASE e.kind = "bad" -> Err(issues)
                    [] e.kind = "dir" -> scan_directory(e, p, issues)
                    [] e.kind = "file" /\ e.ext = Some("rs") -> scan_file(e, p, issues)
                    [] OTHER -> Ok(issues)
         IN  IF r.ok THEN ScanEntries(entries, path, i + 1, r.issues) ELSE r

scan_directory(dir, path, issues) ==
    IF dir.kind # "dir" THEN Ok(issues)
    ELSE IF ~dir.readable THEN Err(issues)
    ELSE ScanEntries(dir.entries, path, 1, issues)

check_version(package, issues) ==
    IF package.version.major = 0
    THEN Append(issues,
                SecurityIssue("Low",
                              Desc("pre-1.0", package.name,
                                   VersionToString(package.version), 0, None),
                              <<VersionToString(package.version)>>, None))
    ELSE issues

CountIssue(package) ==
    SecurityIssue("Low",
                  Desc("Large number of dependencies", "", <<>>,
                       Len(package.dependencies), None),
                  <<VersionToString(package.version)>>, None)

\* The finding with the dependency's requirement as its affected version.
WildcardIssue_DepVersion(package, dep) ==
    SecurityIssue("High",
                  Desc("Wildcard dependency version", dep.name, <<>>, 0, None),
                  <<ReqToString(dep.req)>>, None)

WildcardIssue(package, dep) ==
    SecurityIssue("High",
                  Desc("Wildcard dependency version", dep.name, <<>>, 0, None),
                  <<VersionToString(package.version)>>, None)

\* The for loop of check_dependencies over the dependencies, from i on.
RECURSIVE WildcardIssues(_, _)
WildcardIssues(package, i) ==
    IF i > Len(package.dependencies) THEN <<>>
    ELSE (IF contains(ReqToString(package.dependencies[i].req), "*")
          THEN <<WildcardIssue(package, package.dependencies[i])>> ELSE <<>>)
         \o WildcardIssues(package, i + 1)

\* The count check with >= in place of >.
check_dependencies_AtLeast(package, issues) ==
    (IF Len(package.dependencies) >= DepCountThreshold
     THEN Append(issues, CountIssue(package)) ELSE issues)
    \o WildcardIssues(package, 1)

check_dependencies(package, issues) ==
    (IF Len(package.dependencies) > DepCountThreshold
     THEN Append(issues, CountIssue(package)) ELSE issues)
    \o WildcardIssues(package, 1)

check_build_scripts(package, issues) ==
    IF \E t \in 1..Len(package.targets) :
          \E j \in 1..Len(package.targets[t].kind) :
             package.targets[t].kind[j] = "custom-build"
    THEN Append(issues,
                SecurityIssue("Medium",
                              Desc("contains build scripts", package.name, <<>>, 0, None),
                              <<VersionToString(package.version)>>, None))
    ELSE issues

\* The build-script check called before the dependency checks.
MetadataIssues_BuildFirst(package) ==
    check_dependencies(package,
        check_build_scripts(package, check_version(package, <<>>)))

\* The three metadata checks in the order scan_package calls them.
MetadataIssues(package) ==
    check_build_scripts(package,
        check_dependencies(package, check_version(package, <<>>)))

\* manifest_path.parent(): each package has a directory of its own, named
\* by its name and version.
manifest_dir(package) == <<package.name, VersionToString(package.version)>>

src_dir(package) == Append(manifest_dir(package), "src")

scan_package(package) ==
    LET issues == MetadataIssues(package)
    IN  IF package.src.kind = "missing" THEN Ok(issues)
        ELSE LET r == scan_directory(package.src, src_dir(package), issues)
             IN  IF r.ok THEN Ok(r.issues) ELSE Err(<<>>)

\* ------------------------------------------------------------- analyzer
\* Analyzer::build_dependency_tree: the for loop over the packages, from i on.
RECURSIVE build_dependency_tree(_, _, _)
build_dependency_tree(packages, i, tree) ==
    IF i > Len(packages) THEN tree
    ELSE LET deps == [j \in 1..Len(packages[i].dependencies) |->
                         packages[i].dependencies[j].name]
         IN  build_dependency_tree(packages, i + 1,
                                   Insert(tree, packages[i].name, deps))

\* The DependencyInfo list analyze maps the root's dependencies to.
DirectDeps(root_package) ==
    [j \in 1..Len(root_package.dependencies) |->
        [name |-> root_package.dependencies[j].name,
         version |-> ReqToString(root_package.dependencies[j].req),
         is_direct |-> TRUE,
         features |-> root_package.dependencies[j].features,
         dependencies |-> <<>>]]

\* ------------------------------------------------------------------ inputs
SeqsUpTo(S, n) == UNION {[1..k -> S] : k \in 0..n}

DepNames ==
    << "libfoo", "libbar", "dep03", "dep04", "dep05", "dep06", "dep07", "dep08",
       "dep09", "dep10", "dep11", "dep12", "dep13", "dep14", "dep15", "dep16",
       "dep17", "dep18", "dep19", "dep20", "dep21", "dep22" >>

ReqCaret == [op |-> "Caret", major |-> 1, minor |-> 2]
ReqStar == [op |-> "Star", major |-> 0, minor |-> 0]
ReqMajorWildcard == [op |-> "Wildcard", major |-> 1, minor |-> 0]

\* n dependencies, those at the positions of W with a wildcard requirement.
DepList(n, W) ==
    [i \in 1..n |->
        [name |-> DepNames[i],
         req |-> IF i \in W
                 THEN (IF i % 2 = 1 THEN ReqStar ELSE ReqMajorWildcard)
                 ELSE ReqCaret,
         features |-> <<>>]]

DepCounts == {0, 1, 2, DepCountThreshold, DepCountThreshold + 1}

DepLists ==
    UNION {{DepList(n, W) : W \in SUBSET (1..Min(n, MaxWildcards))} : n \in DepCounts}

Lib == [kind |-> <<"lib">>]
CustomBuild == [kind |-> <<"custom-build">>]
TargetLists == {<<Lib>>, <<Lib, CustomBuild>>}

Versions == {[major |-> 0, minor |-> 5, patch |-> 0], [major |-> 1, minor |-> 3, patch |-> 0]}

\* File texts: no rule matches (near misses only); the unsafe rule alone
\* matches, twice; every other rule matches, in an order that is not the
\* catalog's.
TextClean == <<"fn", "unsafe", "fn", "{", "eval", "x", "(", "std::fs::", "read">>
TextUnsafe == <<"unsafe", "sp", "nl", "{", "fn", "unsafe", "{">>
TextOther == <<"TcpListener::bind", "std::process::Command", "eval", "nl", "(",
               "#![no_std]", "extern", "sp", "C", "std::mem::transmute",
               "std::fs::", "remove">>
Texts == {TextClean, TextUnsafe, TextOther}

File(ext, readable, text) ==
    [kind |-> "file", ext |-> ext, readable |-> readable, text |-> text,
     entries |-> <<>>]
Dir(readable, entries) ==
    [kind |-> "dir", ext |-> None, readable |-> readable, text |-> <<>>,
     entries |-> entries]
BadEntry == [kind |-> "bad", ext |-> None, readable |-> FALSE, text |-> <<>>,
             entries |-> <<>>]
Missing == [kind |-> "missing", ext |-> None, readable |-> FALSE, text |-> <<>>,
            entries |-> <<>>]

RsFiles == {File(Some("rs"), TRUE, t) : t \in Texts} \cup {File(Some("rs"), FALSE, <<>>)}
OtherFiles == {File(Some("txt"), TRUE, TextUnsafe), File(None, TRUE, TextUnsafe)}
SubDirs == {Dir(FALSE, <<>>), Dir(TRUE, <<File(Some("rs"), TRUE, TextOther)>>)}
Entries == RsFiles \cup OtherFiles \cup SubDirs \cup {BadEntry}

\* What a package's src path can be: absent, a plain file, a directory.
SrcTrees ==
    {Missing, File(None, TRUE, TextUnsafe), Dir(FALSE, <<>>)}
    \cup {Dir(TRUE, es) : es \in SeqsUpTo(Entries, MaxEntries)}

SmallSrcTrees ==
    {Missing, Dir(TRUE, <<File(Some("rs"), TRUE, TextUnsafe)>>),
     Dir(FALSE, <<>>)}

SmallDepLists == {DepList(0, {}), DepList(2, {1}), DepList(DepCountThreshold + 1, {})}

\* The packages given to the scanner alone: every dependency list with a few
\* source trees, and every source tree with a few dependency lists.
ScannedPackages ==
    [name : {"libfoo"}, version : Versions, dependencies : DepLists,
     targets : TargetLists, src : SmallSrcTrees]
    \cup
    [name : {"libfoo"}, version : Versions, dependencies : SmallDepLists,
     targets : TargetLists, src : SrcTrees]

ResolvedPackages ==
    [name : {"app", "libfoo"}, version : Versions,
     dependencies : {DepList(0, {}), DepList(2, {1})},
     targets : {<<Lib>>}, src : SmallSrcTrees]

\* Package ids (name and version) are unique in a resolved set.
UniqueIds(ps) ==
    \A i, j \in 1..Len(ps) :
        (ps[i].name = ps[j].name /\ ps[i].version = ps[j].version) => i = j

\* What MetadataCommand::exec and Metadata::root_package can give: an error,
\* or the packages with the root's index (0: no root package).
Metadata(ok, packages, root) == [ok |-> ok, packages |-> packages, root |-> root]

ResolverOutcomes(universe, n) ==
    {Metadata(FALSE, <<>>, 0)}
    \cup {Metadata(TRUE, ps, r) :
            ps \in {q \in SeqsUpTo(universe, n) : UniqueIds(q)}, r \in 0..n}

\* --------------------------------------------------------------- the state
VARIABLES
    metadata,         \* the resolver's outcome for the manifest
    pc,               \* where analyze is
    direct_deps,      \* analyze's direct_deps
    dep_tree,         \* analyze's dep_tree
    security_issues,  \* analyze's security_issues
    scans,            \* what scan_package returned for each package so far
    result            \* what analyze returned

vars == <<metadata, pc, direct_deps, dep_tree, security_issues, scans, result>>

Pending == [status |-> "pending", error |-> "", value |-> <<>>]
Failed(e) == [status |-> "err", error |-> e, value |-> <<>>]
Returned(v) == [status |-> "ok", error |-> "", value |-> v]

Start ==
    /\ pc = "start"
    /\ direct_deps = <<>>
    /\ dep_tree = EmptyMap
    /\ security_issues = EmptyMap
    /\ scans = <<>>
    /\ result = Pending

Init ==
    /\ metadata \in {m \in ResolverOutcomes(ResolvedPackages, MaxPackages) :
                        m.root <= Len(m.packages)}
    /\ Start

ScanInit ==
    /\ metadata \in {m \in ResolverOutcomes(ScannedPackages, 1) :
                        m.root <= Len(m.packages)}
    /\ Start

\* MetadataCommand::exec()? fails.
ExecFails ==
    /\ pc = "start"
    /\ ~metadata.ok
    /\ pc' = "failed"
    /\ result' = Failed("cargo metadata")
    /\ UNCHANGED <<metadata, direct_deps, dep_tree, security_issues, scans>>

\* root_package() is Some.
RootCheck(m) == m.root # 0

\* root_package() is None: analyze fails with "No root package found".
NoRootPackage ==
    /\ pc = "start"
    /\ metadata.ok
    /\ ~RootCheck(metadata)
    /\ pc' = "failed"
    /\ result' = Failed("No root package found")
    /\ UNCHANGED <<metadata, direct_deps, dep_tree, security_issues, scans>>

\* The root is found and its dependencies become direct_deps.
DirectDependencies ==
    /\ pc = "start"
    /\ metadata.ok
    /\ RootCheck(metadata)
    /\ direct_deps' = DirectDeps(metadata.packages[metadata.root])
    /\ pc' = "tree"
    /\ UNCHANGED <<metadata, dep_tree, security_issues, scans, result>>

BuildDependencyTree ==
    /\ pc = "tree"
    /\ dep_tree' = build_dependency_tree(metadata.packages, 1, EmptyMap)
    /\ pc' = "scan"
    /\ UNCHANGED <<metadata, direct_deps, security_issues, scans, result>>

\* The insertion without the is_empty test.
Keep_Empty(r) == r.ok

\* if let Ok(issues) = scan_package(package) { if !issues.is_empty() { .. } }
Keep(r) == r.ok /\ r.issues # <<>>

\* The loop with scan_package(package)? in place of if let Ok(..).
ScanNext_Abort ==
    /\ pc = "scan"
    /\ Len(scans) < Len(metadata.packages)
    /\ LET package == metadata.packages[Len(scans) + 1]
           r == scan_package(package)
       IN  /\ scans' = Append(scans, r)
           /\ security_issues' =
                 (IF Keep(r) THEN Insert(security_issues, package.name, r.issues)
                  ELSE security_issues)
           /\ pc' = (IF r.ok THEN pc ELSE "failed")
           /\ result' = (IF r.ok THEN result ELSE Failed("scan"))
    /\ UNCHANGED <<metadata, direct_deps, dep_tree>>

\* One iteration of the scan loop of analyze.
ScanNext ==
    /\ pc = "scan"
    /\ Len(scans) < Len(metadata.packages)
    /\ LET package == metadata.packages[Len(scans) + 1]
           r == scan_package(package)
       IN  /\ scans' = Append(scans, r)
           /\ security_issues' =
                 (IF Keep(r) THEN Insert(security_issues, package.name, r.issues)
                  ELSE security_issues)
    /\ UNCHANGED <<metadata, pc, direct_deps, dep_tree, result>>

\* The count without the subtraction of the root.
TotalDependencies_NoSub(packages) == Len(packages)

\* metadata.packages.len() - 1; below 0 the usize subtraction overflows.
TotalDependencies(packages) == Len(packages) - 1

\* The loop is over: analyze returns Ok(DependencyAnalysis { .. }).
Return ==
    /\ pc = "scan"
    /\ Len(scans) = Len(metadata.packages)
    /\ pc' = "done"
    /\ result' =
          (IF TotalDependencies(metadata.packages) < 0
           THEN [status |-> "overflow", error |-> "", value |-> <<>>]
           ELSE Returned([total_dependencies |-> TotalDependencies(metadata.packages),
                          direct_dependencies |-> direct_deps,
                          dependency_tree |-> dep_tree,
                          security_issues |-> security_issues]))
    /\ UNCHANGED <<metadata, direct_deps, dep_tree, security_issues, scans>>

Next ==
    \/ ExecFails
    \/ NoRootPackage
    \/ DirectDependencies
    \/ BuildDependencyTree
    \/ ScanNext
    \/ Return

Spec == Init /\ [][Next]_vars

ScanSpec == ScanInit /\ [][Next]_vars

\* ------------------------------------------------------------ the claims
Scanned == 1..Len(scans)
Package(k) == metadata.packages[k]

Unreadable(e) == e.kind = "file" /\ e.ext = Some("rs") /\ ~e.readable

\* The tree with every unreadable source file replaced by an empty one.
RECURSIVE Healed(_)
Healed(e) ==
    IF Unreadable(e) THEN File(Some("rs"), TRUE, <<>>)
    ELSE IF e.kind = "dir"
         THEN Dir(e.readable, [i \in 1..Len(e.entries) |-> Healed(e.entries[i])])
         ELSE e

\* The files below a directory, each with its path.
RECURSIVE TreeFiles(_, _)
TreeFiles(dir, path) ==
    IF dir.kind # "dir" THEN {}
    ELSE UNION {IF dir.entries[i].kind = "file"
                THEN {[path |-> Append(path, i), file |-> dir.entries[i]]}
                ELSE TreeFiles(dir.entries[i], Append(path, i)) :
                i \in 1..Len(dir.entries)}

HasUnreadableFile(package) ==
    \E f \in TreeFiles(package.src, src_dir(package)) : Unreadable(f.file)

\* The catalog rules each text of the inputs holds a match of.
ExpectedRules(text) ==
    CASE text = TextUnsafe -> {1}
      [] text = TextOther -> {2, 3, 4, 5, 6, 7, 8}
      [] OTHER -> {}

Template(issue) == issue.description.template
IsSourceFinding(issue) == issue.description.path # None
Rank(issue) ==
    CASE IsSourceFinding(issue) -> 5
      [] Template(issue) = "pre-1.0" -> 1
      [] Template(issue) = "Large number of dependencies" -> 2
      [] Template(issue) = "Wildcard dependency version" -> 3
      [] OTHER -> 4
RuleOf(issue) == CHOOSE r \in 1..Len(patterns) : patterns[r].description = Template(issue)
DepIndex(package, issue) ==
    CHOOSE i \in 1..Len(package.dependencies) :
        package.dependencies[i].name = issue.description.name
IsWildcardReq(req) == req.op \in {"Star", "Wildcard"}
HasCustomBuild(package) == \E t \in 1..Len(package.targets) : package.targets[t] = CustomBuild

\* C1: a source file that cannot be read contributes no findings and the scan
\* of its package goes on: scan_package returns what it returns for the same
\* package with that file empty (the metadata findings and the findings of
\* every other file).
C1_ReadFailureIsLocal ==
    \A k \in Scanned :
        HasUnreadableFile(Package(k)) =>
            scans[k] = scan_package([Package(k) EXCEPT !.src = Healed(@)])

\* C2: a failing scan_package does not abort analyze: analyze fails only when
\* the resolver fails or gives no root, before any scan; the scan loop leaves
\* the result open whatever the scans gave; analyze returns only after
\* scanning every package, and then a name all of whose packages failed to
\* scan has no entry while every package that scanned with findings has its
\* name reported.
C2_ScanFailureTolerated ==
    /\ pc = "failed" => (~metadata.ok \/ metadata.root = 0) /\ scans = <<>>
    /\ pc = "scan" => Len(scans) <= Len(metadata.packages) /\ result = Pending
    /\ pc = "done" =>
          /\ result.status = "ok"
          /\ Len(scans) = Len(metadata.packages)
          /\ DOMAIN result.value.dependency_tree = {Package(k).name : k \in Scanned}
          /\ \A k \in Scanned :
                /\ (scans[k].ok /\ scans[k].issues # <<>>)
                      => Package(k).name \in DOMAIN result.value.security_issues
                /\ (\A j \in Scanned : Package(j).name = Package(k).name => ~scans[j].ok)
                      => Package(k).name \notin DOMAIN result.value.security_issues

C2_Witness ==
    /\ pc = "done"
    /\ \E k, j \in Scanned :
          /\ k < j
          /\ ~scans[k].ok
          /\ scans[j].ok
          /\ Package(k).name \notin DOMAIN result.value.security_issues
          /\ Package(j).name \in DOMAIN result.value.security_issues

\* C3: after build_dependency_tree the graph has exactly one entry per
\* resolved package, and under each package's name its own dependency names
\* in declared order.
C3_GraphComplete ==
    pc \in {"scan", "done"} =>
        /\ Cardinality(DOMAIN dep_tree) = Len(metadata.packages)
        /\ \A k \in 1..Len(metadata.packages) :
              /\ Package(k).name \in DOMAIN dep_tree
              /\ dep_tree[Package(k).name] =
                    [j \in 1..Len(Package(k).dependencies) |->
                        Package(k).dependencies[j].name]

\* C4: security_issues never holds an empty finding list, during the loop
\* and in the returned report.
C4_NoEmptyEntry ==
    /\ \A n \in DOMAIN security_issues : security_issues[n] # <<>>
    /\ result.status = "ok" =>
          \A n \in DOMAIN result.value.security_issues :
              result.value.security_issues[n] # <<>>

C4_Witness ==
    /\ pc = "done"
    /\ \E k, j \in Scanned :
          /\ scans[k].ok /\ scans[k].issues = <<>>
          /\ scans[j].ok /\ scans[j].issues # <<>>
          /\ Package(k).name \notin DOMAIN result.value.security_issues
          /\ Package(j).name \in DOMAIN result.value.security_issues

\* C5: the list scan_package returns is ordered: pre-release, dependency
\* count, wildcard findings in declared dependency order, build script, then
\* every source finding; more than 20 dependencies without wildcards, a
\* custom-build target, major >= 1 and one file with an unsafe block give
\* the count, build-script and unsafe findings in that order.
C5_FindingOrder ==
    \A k \in Scanned :
        scans[k].ok =>
            LET iss == scans[k].issues
            IN  /\ \A i, j \in 1..Len(iss) :
                      i < j =>
                         /\ Rank(iss[i]) <= Rank(iss[j])
                         /\ (Rank(iss[i]) = 3 /\ Rank(iss[j]) = 3)
                               => DepIndex(Package(k), iss[i]) < DepIndex(Package(k), iss[j])
                /\ ( /\ Len(Package(k).dependencies) > 20
                     /\ \A d \in 1..Len(Package(k).dependencies) :
                           ~IsWildcardReq(Package(k).dependencies[d].req)
                     /\ HasCustomBuild(Package(k))
                     /\ Package(k).version.major >= 1
                     /\ Package(k).src = Dir(TRUE, <<File(Some("rs"), TRUE, TextUnsafe)>>) )
                   => /\ Len(iss) = 3
                      /\ Template(iss[1]) = "Large number of dependencies"
                      /\ Template(iss[2]) = "contains build scripts"
                      /\ Template(iss[3]) = patterns[1].description

C5_Witness ==
    \E k \in Scanned :
        /\ scans[k].ok
        /\ Len(Package(k).dependencies) > 20
        /\ HasCustomBuild(Package(k))
        /\ Package(k).version.major >= 1
        /\ Package(k).src = Dir(TRUE, <<File(Some("rs"), TRUE, TextUnsafe)>>)
        /\ Len(scans[k].issues) = 3
        /\ Rank(scans[k].issues[3]) = 5

\* C6: in a source scan's result every rs file has, for every rule, exactly
\* one finding when the rule matches its text and none otherwise, other files
\* have none; a finding has its rule's severity, no affected versions and no
\* fix version; the findings of one file are in catalog order.
C6_OneFindingPerRuleAndFile ==
    \A k \in Scanned :
        scans[k].ok =>
            LET iss == scans[k].issues
                src == {i \in 1..Len(iss) : IsSourceFinding(iss[i])}
                files == TreeFiles(Package(k).src, src_dir(Package(k)))
            IN  /\ \A f \in files : \A r \in 1..Len(patterns) :
                      Cardinality({i \in src : /\ iss[i].description.path = Some(f.path)
                                               /\ Template(iss[i]) = patterns[r].description})
                         = (IF f.file.ext = Some("rs") /\ r \in ExpectedRules(f.file.text)
                            THEN 1 ELSE 0)
                /\ \A i \in src :
                      /\ \E f \in files : iss[i].description.path = Some(f.path)
                      /\ \E r \in 1..Len(patterns) : patterns[r].description = Template(iss[i])
                      /\ iss[i].severity = patterns[RuleOf(iss[i])].severity
                      /\ iss[i].affected_versions = <<>>
                      /\ iss[i].fix_version = None
                /\ \A i, j \in src :
                      (i < j /\ iss[i].description.path = iss[j].description.path)
                         => RuleOf(iss[i]) < RuleOf(iss[j])

C6_Witness ==
    \E k \in Scanned :
        /\ scans[k].ok
        /\ \E f, g \in TreeFiles(Package(k).src, src_dir(Package(k))) :
              /\ f.file = File(Some("rs"), TRUE, TextOther)
              /\ g.file = File(Some("txt"), TRUE, TextUnsafe)
        /\ Cardinality({i \in 1..Len(scans[k].issues) :
                           IsSourceFinding(scans[k].issues[i])}) = 7

\* C7: the wildcard check gives exactly one High finding per dependency whose
\* requirement is a wildcard and none for another, each with the scanned
\* package's own version as its only affected version.
C7_WildcardFindings ==
    \A k \in Scanned :
        scans[k].ok =>
            LET iss == scans[k].issues
                wild == {i \in 1..Len(iss) : Template(iss[i]) = "Wildcard dependency version"}
                deps == Package(k).dependencies
            IN  /\ \A d \in 1..Len(deps) :
                      Cardinality({i \in wild : iss[i].description.name = deps[d].name})
                         = (IF IsWildcardReq(deps[d].req) THEN 1 ELSE 0)
                /\ Cardinality(wild)
                      = Cardinality({d \in 1..Len(deps) : IsWildcardReq(deps[d].req)})
                /\ \A i \in wild :
                      /\ iss[i].severity = "High"
                      /\ iss[i].affected_versions = <<VersionToString(Package(k).version)>>

C7_Witness ==
    \E k \in Scanned :
        /\ scans[k].ok
        /\ Len(Package(k).dependencies) = 21
        /\ Cardinality({d \in 1..21 : IsWildcardReq(Package(k).dependencies[d].req)}) = 2
        /\ Cardinality({i \in 1..Len(scans[k].issues) :
                           Template(scans[k].issues[i]) = "Wildcard dependency version"}) = 2

\* C8: the dependency-count finding (Low) is in the scan result exactly once
\* when the package has more than 20 dependencies and not at all when it has
\* 20 or fewer.
C8_DependencyCountFinding ==
    \A k \in Scanned :
        scans[k].ok =>
            LET iss == scans[k].issues
                big == {i \in 1..Len(iss) : Template(iss[i]) = "Large number of dependencies"}
            IN  /\ Cardinality(big) = (IF Len(Package(k).dependencies) > 20 THEN 1 ELSE 0)
                /\ \A i \in big :
                      /\ iss[i].severity = "Low"
                      /\ iss[i].description.count = Len(Package(k).dependencies)

C8_Witness ==
    \E k \in Scanned :
        /\ scans[k].ok
        /\ Len(Package(k).dependencies) = 21
        /\ Cardinality({i \in 1..Len(scans[k].issues) :
                           Template(scans[k].issues[i]) = "Large number of dependencies"}) = 1

\* C9: a returned report's total_dependencies is the number of resolved
\* packages minus 1, whatever the scans gave, and the subtraction never
\* overflows: without a root analyze fails before it.
C9_TotalDependencies ==
    /\ result.status # "overflow"
    /\ (metadata.ok /\ metadata.root = 0) => pc \in {"start", "failed"}
    /\ pc = "done" =>
          /\ result.status = "ok"
          /\ result.value.total_dependencies = Len(metadata.packages) - 1
          /\ result.value.total_dependencies >= 0

C9_Witness ==
    /\ pc = "done"
    /\ result.value.total_dependencies = 1
    /\ \E k, j \in Scanned : ~scans[k].ok /\ scans[j].ok /\ scans[j].issues # <<>>

\* C10: in the returned report every package whose scan succeeded with
\* findings has exactly its own finding list under its name, also when two
\* resolved packages share a name.
C10_NoFindingsLost ==
    pc = "done" =>
        \A k \in Scanned :
            (scans[k].ok /\ scans[k].issues # <<>>) =>
                /\ Package(k).name \in DOMAIN result.value.security_issues
                /\ result.value.security_issues[Package(k).name] = scans[k].issues

====
